---- MODULE Spec2Model ----
(***************************************************************************)
(* Model of main.py: a sensor bridge that discovers BME680 (I2C) and       *)
(* 1-Wire temperature sensors once, then polls them forever and publishes  *)
(* each cycle's readings as one MQTT batch.                                *)
(*                                                                         *)
(* Strings are TLA+ strings; format() and str() are modelled by string     *)
(* concatenation.  None is the empty sequence <<>>, a present optional     *)
(* value v is <<v>>.  Hardware and broker answers are chosen when the      *)
(* program asks for them; the configuration and the system host name are   *)
(* fixed in the initial state.                                             *)
(***************************************************************************)
EXTENDS Integers, Sequences, FiniteSets, TLC

VARIABLES
    config,      \* the ConfigParser snapshot read at import           (l.21-22)
    fqdn,        \* what gethostname() returns, as a sequence of characters
    pc,          \* position of the process in main() and what it calls
    exc,         \* the uncaught exception that ended the process, "" if none
    bus_id,      \* loop variable of the bus scan                     (l.108)
    i2c_device,  \* local of BME680Sensor.create_sensors              (l.106)
    entry,       \* position in config['bme680sensors'].items()       (l.115)
    sensors,     \* the sensor list built by discovery and by main    (l.132)
    busLog,      \* history: outcome of SMBus(0) and of SMBus(1)
    ctorLog,     \* history: every BME680 constructor call and its outcome
    w1Log,       \* history: what the 1-Wire enumeration answered
    data,        \* data[i]: the driver's data register of sensor i (_sensor.data)
    messages,    \* local of main's loop                             (l.140)
    idx,         \* position of `for sensor in sensors`               (l.141)
    attempt,     \* items taken from range(attempts) in this call     (l.89)
    acqs,        \* history: get_sensor_data() calls made by this call
    waits,       \* history: sleep(0.5) calls made by this call
    okAt,        \* history: attempts of this call that had data and stable
    okData,      \* history: the register as the last such attempt left it
    result,      \* what the readings() call that just ended returned
    okLog,       \* history: per readings() call of this cycle, the register
                 \* of its successful attempt and the acquisitions after it
    returned,    \* history: what each readings() call of this cycle returned
    published,   \* history: the batches handed to publish in this cycle
    pubLog,      \* history: how each publish call of this cycle ended
    slept        \* history: the sleeps of main's loop since the cycle began

discoveryVars == <<config, fqdn, pc, exc, bus_id, i2c_device, entry, sensors,
                   busLog, ctorLog, w1Log>>
loopVars == <<messages, idx, attempt, acqs, waits, okAt, okData,
              result, okLog, returned, published, pubLog, slept>>
discoveryVarsButPc == <<config, fqdn, exc, bus_id, i2c_device, entry, sensors,
                        busLog, ctorLog, w1Log>>
vars == <<discoveryVars, data, loopVars>>

-----------------------------------------------------------------------------
(* Bounds of the model and the input sets they cut out.                    *)

MaxProbes == 2      \* at most this many 1-Wire probes are visible
MaxEntries == 2     \* at most this many bme680sensors entries
MaxSample == 1      \* hardware samples are numbered 0..MaxSample

None == <<>>
Some(v) == <<v>>
IsNone(o) == o = <<>>
Val(o) == o[1]

ProbeIds == <<"28-aa", "28-bb", "28-cc", "28-dd">>
\* Lists of visible probes: the first n probe ids, and the lone second one.
ProbeLists ==
    {SubSeq(ProbeIds, 1, n) : n \in 0..MaxProbes} \cup {<<"28-bb">>}

\* config['w1sensors']: probe id -> mqtt_id overrides.
W1Overrides ==
    { [p \in {} |-> ""],
      [p \in {"28-aa"} |-> "attic"],
      [p \in {"28-bb"} |-> ""],
      [p \in {"28-aa", "28-bb"} |-> IF p = "28-aa" THEN "attic" ELSE "cellar"] }

\* Keys of config['bme680sensors'] are hexadecimal I2C addresses.
AddrKeys == { <<"7","6">>, <<"7","7">>, <<"0","x","7","7">>, <<"0">> }
EntryNames == <<"lounge", "loft", "hall", "shed">>
Injective(f) == \A i, j \in DOMAIN f : i # j => f[i] # f[j]
\* An ordered dict: keys are pairwise distinct; the n-th entry is named
\* EntryNames[n].
EntryLists ==
    UNION { { [i \in 1..n |-> <<ks[i], EntryNames[i]>>] :
                ks \in {s \in [1..n -> AddrKeys] : Injective(s)} }
            : n \in 0..MaxEntries }

HostnameOptions == { None, Some("pi1"), Some("") }
Fqdns == { <<"p","i","1">>, <<"r","p","i",".","l","a","n">> }
TopicFormats ==
    { << [kind |-> "lit", text |-> "home/"], [kind |-> "field", text |-> "id"],
         [kind |-> "lit", text |-> "/"], [kind |-> "field", text |-> "attribute"] >> }
Delays == { 5 }

Configs ==
    [ general_hostname : HostnameOptions,
      general_delay    : Delays,
      mqtt_topic_format : TopicFormats,
      w1sensors        : W1Overrides,
      bme680sensors    : EntryLists ]

-----------------------------------------------------------------------------
(* Pure helpers: string handling as the code and its library calls do it.  *)

RECURSIVE Join(_)
\* The string made of a sequence of one-character strings.
Join(cs) == IF cs = <<>> THEN "" ELSE cs[1] \o Join(Tail(cs))

RECURSIVE FirstLabel(_)
\* gethostname().split('.')[0]: the characters before the first dot.
FirstLabel(cs) ==
    IF cs = <<>> \/ cs[1] = "." THEN <<>>
    ELSE <<cs[1]>> \o FirstLabel(Tail(cs))

\* config[section].get(key, fallback) on an option that may be absent.
OptionGet(opt, fallback) == IF IsNone(opt) THEN fallback ELSE Val(opt)

\* config[section].get(key, fallback) on a section of key -> value.
SectionGet(section, key, fallback) ==
    IF key \in DOMAIN section THEN section[key] ELSE fallback

\* config['general'].get('hostname', gethostname().split('.')[0])
ResolveHostname(cfg, host) ==
    OptionGet(cfg.general_hostname, Join(FirstLabel(host)))

HexDigits == <<"0","1","2","3","4","5","6","7","8","9","a","b","c","d","e","f">>
HexDigit(c) == (CHOOSE d \in 1..16 : HexDigits[d] = c) - 1

RECURSIVE HexDigitsValue(_, _)
HexDigitsValue(cs, acc) ==
    IF cs = <<>> THEN acc
    ELSE HexDigitsValue(Tail(cs), acc * 16 + HexDigit(cs[1]))

\* int(text, 16): an optional 0x prefix, then hexadecimal digits.
HexInt(cs) ==
    IF Len(cs) > 2 /\ cs[1] = "0" /\ cs[2] = "x"
    THEN HexDigitsValue(SubSeq(cs, 3, Len(cs)), 0)
    ELSE HexDigitsValue(cs, 0)

\* "{}_{}".format(hostname, sensor.id)
GeneratedId(hostname, probe) == hostname \o "_" \o probe

-----------------------------------------------------------------------------
(* Sensor objects.                                                         *)

I2C_ADDR_PRIMARY == 118   \* the address bme680.BME680() uses when given none

\* BME680Sensor.__init__: the address test is Python truthiness, so an
\* address of 0 takes the branch that passes no address to the driver.
BME680Bound(i2c_addr) ==
    IF ~IsNone(i2c_addr) /\ Val(i2c_addr) # 0
    THEN Val(i2c_addr) ELSE I2C_ADDR_PRIMARY

\* A constructor that drops the bus handle it is given, so that the driver
\* opens a bus of its own.
BME680SensorOwnBus(mqtt_id, i2c_addr, device) ==
    [ kind |-> "bme680", mqtt_id |-> mqtt_id,
      addr |-> BME680Bound(i2c_addr), handle |-> None, probe |-> "" ]

BME680Sensor(mqtt_id, i2c_addr, device) ==
    [ kind |-> "bme680", mqtt_id |-> mqtt_id,
      addr |-> BME680Bound(i2c_addr), handle |-> device, probe |-> "" ]

\* A sensor of no particular family: BaseSensor with its mqtt_id set.
BaseSensor(mqtt_id) ==
    [ kind |-> "base", mqtt_id |-> mqtt_id,
      addr |-> 0, handle |-> None, probe |-> "" ]

W1Sensor(mqtt_id, probe) ==
    [ kind |-> "w1", mqtt_id |-> mqtt_id,
      addr |-> 0, handle |-> None, probe |-> probe ]

\* A lone probe that is named after the host without a look at the overrides.
W1MqttIdLoneIgnoresOverride(cfg, hostname, probes, probe) ==
    IF Len(probes) = 1
    THEN hostname
    ELSE SectionGet(cfg.w1sensors, probe, GeneratedId(hostname, probe))

\* A default name that is generated whatever the number of probes.
W1MqttIdAlwaysGenerated(cfg, hostname, probes, probe) ==
    SectionGet(cfg.w1sensors, probe, GeneratedId(hostname, probe))

\* The mqtt_id W1Sensor.create_sensors gives one probe of `probes`.
W1MqttId(cfg, hostname, probes, probe) ==
    IF Len(probes) = 1
    THEN SectionGet(cfg.w1sensors, probe, hostname)
    ELSE SectionGet(cfg.w1sensors, probe, GeneratedId(hostname, probe))

\* W1Sensor.create_sensors, W1ThermSensor being available.
W1CreateSensors(cfg, hostname, probes) ==
    [ i \in 1..Len(probes) |->
        W1Sensor(W1MqttId(cfg, hostname, probes, probes[i]), probes[i]) ]

-----------------------------------------------------------------------------
(* The BME680 driver's data register and the readings made of it.          *)

\* An off-by-one attempt cap.
attemptsOffByOne == 60 - 1

attempts == 60

\* The register of a freshly constructed driver: no values (-1 stands for
\* None), heater not stable.
InitialData ==
    [ temperature |-> -1, humidity |-> -1, pressure |-> -1,
      gas_resistance |-> -1, heat_stable |-> FALSE ]

\* The register after acquisition number n delivered new data.
SampleData(n, stable) ==
    [ temperature |-> 20 + n, humidity |-> 40 + n, pressure |-> 990 + n,
      gas_resistance |-> 100 + n, heat_stable |-> stable ]

Digits == <<"0","1","2","3","4","5","6","7","8","9">>
RECURSIVE Decimal(_)
Decimal(n) == IF n < 10 THEN Digits[n + 1]
              ELSE Decimal(n \div 10) \o Digits[(n % 10) + 1]
\* str(payload)
Str(v) == IF v < 0 THEN "None" ELSE Decimal(v)

RECURSIVE FormatDropsId(_, _, _)
\* A substitution with the keywords mixed up: every field gets the attribute.
FormatDropsId(template, attribute, id) ==
    IF template = <<>> THEN ""
    ELSE LET piece == template[1]
             text  == IF piece.kind = "lit" THEN piece.text ELSE attribute
         IN text \o FormatDropsId(Tail(template), attribute, id)

RECURSIVE Format(_, _, _)
\* template.format(attribute=attribute, id=id)
Format(template, attribute, id) ==
    IF template = <<>> THEN ""
    ELSE LET piece == template[1]
             text  == IF piece.kind = "lit" THEN piece.text
                      ELSE IF piece.text = "id" THEN id ELSE attribute
         IN text \o Format(Tail(template), attribute, id)

\* BaseSensor.topic_for_attribute
topic_for_attribute(cfg, sensor, attribute) ==
    Format(cfg.mqtt_topic_format, attribute, sensor.mqtt_id)

\* `if data and stable`
\* A test that stops at the first attempt with data, stable or not.
ReadyOnData(new, stable) == new

\* `if data and stable: break`
Ready(new, stable) == new /\ stable

\* What BME680Sensor.topics_and_values returns after `break`.
BME680Readings(cfg, sensor, reg) ==
    << <<topic_for_attribute(cfg, sensor, "temperature"), reg.temperature>>,
       <<topic_for_attribute(cfg, sensor, "humidity"), reg.humidity>>,
       <<topic_for_attribute(cfg, sensor, "pressure"), reg.pressure>>,
       <<topic_for_attribute(cfg, sensor, "gas_resistance"), reg.gas_resistance>> >>

\* What W1Sensor.topics_and_values yields for a temperature.
W1Readings(cfg, sensor, temperature) ==
    << <<topic_for_attribute(cfg, sensor, "temperature"), temperature>> >>

\* An append that leaves an empty record for a sensor without readings.
ExtendWithPlaceholder(msgs, readings) ==
    IF readings = <<>>
    THEN Append(msgs, [topic |-> "", payload |-> "None"])
    ELSE msgs \o [ i \in 1..Len(readings) |->
                     [topic |-> readings[i][1], payload |-> Str(readings[i][2])] ]

\* main: messages.append({'topic': topic, 'payload': str(payload)}) for
\* every pair of one sensor's topics_and_values.
Extend(msgs, readings) ==
    msgs \o [ i \in 1..Len(readings) |->
                [topic |-> readings[i][1], payload |-> Str(readings[i][2])] ]

-----------------------------------------------------------------------------
(* What the environment may answer.                                        *)

\* smbus.SMBus(bus_id): a handle, FileNotFoundError, or another error.
BusOutcomes == { "ok", "FileNotFoundError", "PermissionError" }
\* bme680.BME680(...): a driver object, OSError (no device answers), or
\* another error (a device that is not a BME680).
CtorOutcomes == { "ok", "OSError", "RuntimeError" }
\* W1ThermSensor is None or not, and what get_available_sensors() lists.
W1Answers ==
    { [available |-> FALSE, probes |-> <<>>] } \cup
    { [available |-> TRUE, probes |-> ps] : ps \in ProbeLists }

-----------------------------------------------------------------------------
(* STARTUP: BME680Sensor.create_sensors, W1Sensor.create_sensors, main.    *)

InitDiscovery ==
    /\ config \in Configs
    /\ fqdn \in Fqdns
    /\ pc = "scan"
    /\ exc = ""
    /\ bus_id = 0
    /\ i2c_device = None
    /\ entry = 1
    /\ sensors = <<>>
    /\ busLog = <<>>
    /\ ctorLog = <<>>
    /\ w1Log = None
    /\ data = <<>>
    /\ messages = <<>>
    /\ idx = 0
    /\ attempt = 0
    /\ acqs = 0
    /\ waits = 0
    /\ okAt = {}
    /\ okData = None
    /\ result = <<>>
    /\ okLog = <<>>
    /\ returned = <<>>
    /\ published = <<>>
    /\ pubLog = <<>>
    /\ slept = <<>>

\* The uncaught exception e ends the process.
Raise(e) == pc' = "crashed" /\ exc' = e

\* Where create_sensors goes after the loop over the configured entries:
\* `if not sensors` decides whether the default sensor is tried.
AfterConfigured(built) == IF built = <<>> THEN "default" ELSE "w1"

\* A scan that forgets the handle it holds when an open fails.
ScanKeepDropsOnFailure(held, id, outcome) ==
    IF outcome = "ok" THEN Some(id) ELSE None

\* What the bus scan holds after SMBus(id) answered `outcome`.
ScanKeep(held, id, outcome) == IF outcome = "ok" THEN Some(id) ELSE held

\* One iteration of `for bus_id in (0, 1)`: try to open the bus.
OpenBus(outcomes) ==
    /\ pc = "scan"
    /\ \E o \in outcomes :
        /\ busLog' = Append(busLog, o)
        /\ IF o \in {"ok", "FileNotFoundError"}
           THEN /\ i2c_device' = ScanKeep(i2c_device, bus_id, o)
                /\ bus_id' = bus_id + 1
                /\ pc' = IF bus_id = 1
                         THEN (IF entry <= Len(config.bme680sensors)
                               THEN "configured" ELSE AfterConfigured(sensors))
                         ELSE "scan"
                /\ exc' = exc
           ELSE /\ Raise(o)
                /\ UNCHANGED <<i2c_device, bus_id>>
    /\ UNCHANGED <<config, fqdn, entry, sensors, ctorLog, w1Log, data, loopVars>>

\* A configured entry whose OSError is passed over like the default sensor's.
ConstructConfiguredTolerant(outcomes) ==
    /\ pc = "configured"
    /\ LET key  == config.bme680sensors[entry][1]
           name == config.bme680sensors[entry][2]
           made == BME680Sensor(name, Some(HexInt(key)), i2c_device)
       IN \E o \in outcomes :
            /\ ctorLog' = Append(ctorLog,
                                 [entry |-> entry, addr |-> made.addr, outcome |-> o])
            /\ IF o \in {"ok", "OSError"}
               THEN /\ sensors' = IF o = "ok" THEN Append(sensors, made) ELSE sensors
                    /\ data' = IF o = "ok" THEN Append(data, InitialData) ELSE data
                    /\ entry' = entry + 1
                    /\ pc' = IF entry < Len(config.bme680sensors)
                             THEN "configured" ELSE AfterConfigured(sensors')
                    /\ exc' = exc
               ELSE /\ Raise(o)
                    /\ UNCHANGED <<sensors, data, entry>>
    /\ UNCHANGED <<config, fqdn, bus_id, i2c_device, busLog, w1Log, loopVars>>

\* One iteration of `for i2c_addr, mqtt_id in config['bme680sensors'].items()`.
ConstructConfigured(outcomes) ==
    /\ pc = "configured"
    /\ LET key  == config.bme680sensors[entry][1]
           name == config.bme680sensors[entry][2]
           made == BME680Sensor(name, Some(HexInt(key)), i2c_device)
       IN \E o \in outcomes :
            /\ ctorLog' = Append(ctorLog,
                                 [entry |-> entry, addr |-> made.addr, outcome |-> o])
            /\ IF o = "ok"
               THEN /\ sensors' = Append(sensors, made)
                    /\ data' = Append(data, InitialData)
                    /\ entry' = entry + 1
                    /\ pc' = IF entry < Len(config.bme680sensors)
                             THEN "configured" ELSE AfterConfigured(sensors')
                    /\ exc' = exc
               ELSE /\ Raise(o)
                    /\ UNCHANGED <<sensors, data, entry>>
    /\ UNCHANGED <<config, fqdn, bus_id, i2c_device, busLog, w1Log, loopVars>>

\* `if not sensors`: one sensor at the driver's default address, named
\* after the host; OSError means no sensor is attached.
ConstructDefault(outcomes) ==
    /\ pc = "default"
    /\ LET made == BME680Sensor(ResolveHostname(config, fqdn), None, i2c_device)
       IN \E o \in outcomes :
            /\ ctorLog' = Append(ctorLog,
                                 [entry |-> 0, addr |-> made.addr, outcome |-> o])
            /\ IF o = "ok"
               THEN /\ sensors' = Append(sensors, made)
                    /\ data' = Append(data, InitialData)
                    /\ pc' = "w1" /\ exc' = exc
               ELSE /\ UNCHANGED <<sensors, data>>
                    /\ IF o = "OSError" THEN pc' = "w1" /\ exc' = exc ELSE Raise(o)
    /\ UNCHANGED <<config, fqdn, bus_id, i2c_device, entry, busLog, w1Log, loopVars>>

\* sensors.extend(W1Sensor.create_sensors())
DiscoverW1(answers) ==
    /\ pc = "w1"
    /\ \E a \in answers :
        /\ w1Log' = Some(a)
        /\ LET found == IF a.available
                        THEN W1CreateSensors(
                                 config, ResolveHostname(config, fqdn), a.probes)
                        ELSE <<>>
           IN /\ sensors' = sensors \o found
              /\ data' = data \o [i \in 1..Len(found) |-> InitialData]
    /\ pc' = "check"
    /\ UNCHANGED <<config, fqdn, exc, bus_id, i2c_device, entry, busLog, ctorLog,
                   loopVars>>

\* A main that enters the loop whatever discovery found.
CheckSensorsNoRaise ==
    /\ pc = "check"
    /\ pc' = "loop" /\ exc' = exc
    /\ UNCHANGED <<config, fqdn, bus_id, i2c_device, entry, sensors,
                   busLog, ctorLog, w1Log, data, loopVars>>

\* `if not sensors: raise Exception("No sensors found.")`
CheckSensors ==
    /\ pc = "check"
    /\ IF sensors = <<>>
       THEN Raise("No sensors found.")
       ELSE pc' = "loop" /\ exc' = exc
    /\ UNCHANGED <<config, fqdn, bus_id, i2c_device, entry, sensors,
                   busLog, ctorLog, w1Log, data, loopVars>>

-----------------------------------------------------------------------------
(* POLLING: main's `while True` and the sensors' topics_and_values.        *)

\* get_sensor_data() and data.heat_stable: no new data (the register keeps
\* its old contents), new data of sample n with the heater stable or not,
\* or a bus error.
DriverAnswers ==
    { [fail |-> FALSE, new |-> FALSE, sample |-> 0, stable |-> FALSE],
      [fail |-> TRUE, new |-> FALSE, sample |-> 0, stable |-> FALSE] } \cup
    { [fail |-> FALSE, new |-> TRUE, sample |-> n, stable |-> st] :
        n \in 0..MaxSample, st \in BOOLEAN }
\* get_temperature(): a temperature, or a sensor error.
W1ReadAnswers ==
    { [fail |-> TRUE, temperature |-> 0] } \cup
    { [fail |-> FALSE, temperature |-> 15 + n] : n \in 0..MaxSample }
\* publish.multiple(): returns, or fails to reach the broker.
PublishOutcomes == { "ok", "ConnectionRefusedError" }

IsSensor(kind) == idx \in 1..Len(sensors) /\ sensors[idx].kind = kind

\* The per-call history starts afresh.
ClearCall ==
    /\ attempt' = 0 /\ acqs' = 0 /\ waits' = 0
    /\ okAt' = {} /\ okData' = None

\* A cycle that works the sensors' ids out again from the host name.
StartCycleRenames ==
    /\ pc = "loop"
    /\ pc' = "read"
    /\ messages' = <<>>
    /\ idx' = 1
    /\ okLog' = <<>> /\ returned' = <<>> /\ published' = <<>> /\ slept' = <<>>
    /\ pubLog' = <<>>
    /\ sensors' = [ i \in 1..Len(sensors) |->
                      [sensors[i] EXCEPT !.mqtt_id = ResolveHostname(config, fqdn)] ]
    /\ UNCHANGED <<config, fqdn, exc, bus_id, i2c_device, entry, busLog, ctorLog,
                   w1Log, data, attempt, acqs, waits, okAt, okData, result>>

\* Top of `while True`: messages = []
StartCycle ==
    /\ pc = "loop"
    /\ pc' = "read"
    /\ messages' = <<>>
    /\ idx' = 1
    /\ okLog' = <<>> /\ returned' = <<>> /\ published' = <<>> /\ slept' = <<>>
    /\ pubLog' = <<>>
    /\ UNCHANGED <<discoveryVarsButPc, data, attempt, acqs, waits, okAt, okData,
                   result>>

\* main reaches an environmental sensor and asks for topics_and_values.
EnterReadings ==
    /\ pc = "read" /\ IsSensor("bme680")
    /\ pc' = "attempt"
    /\ UNCHANGED <<discoveryVarsButPc, data, loopVars>>

\* The register after get_sensor_data() answered `a`.
Acquired(reg, a) == IF a.new THEN SampleData(a.sample, a.stable) ELSE reg

\* One item of the generator and the test on it: get_sensor_data(), then
\* data.heat_stable, then `if data and stable: break`.
Acquire(answers) ==
    /\ pc = "attempt" /\ attempt < attempts
    /\ \E a \in answers :
        IF a.fail
        THEN /\ Raise("OSError")
             /\ acqs' = acqs + 1
             /\ UNCHANGED <<data, attempt, okAt, okData>>
        ELSE LET reg == Acquired(data[idx], a)
             IN /\ data' = [data EXCEPT ![idx] = reg]
                /\ attempt' = attempt + 1
                /\ acqs' = acqs + 1
                /\ okAt' = IF a.new /\ reg.heat_stable
                           THEN okAt \cup {attempt + 1} ELSE okAt
                /\ okData' = IF a.new /\ reg.heat_stable
                             THEN Some(reg) ELSE okData
                /\ pc' = IF Ready(a.new, reg.heat_stable) THEN "stable" ELSE "wait"
                /\ exc' = exc
    /\ UNCHANGED <<config, fqdn, bus_id, i2c_device, entry, sensors, busLog,
                   ctorLog, w1Log, messages, idx, waits, result, okLog, returned,
                   published, pubLog, slept>>

\* sleep(0.5) after an attempt that was not ready.
Wait ==
    /\ pc = "wait"
    /\ waits' = waits + 1
    /\ pc' = "attempt"
    /\ UNCHANGED <<discoveryVarsButPc, data, messages, idx, attempt, acqs, okAt,
                   okData, result, okLog, returned, published, pubLog, slept>>

\* The for loop ran out of attempts: `else: return []`.
GiveUp ==
    /\ pc = "attempt" /\ attempt >= attempts
    /\ result' = <<>>
    /\ pc' = "returned"
    /\ UNCHANGED <<discoveryVarsButPc, data, messages, idx, attempt, acqs, waits,
                   okAt, okData, okLog, returned, published, pubLog, slept>>

\* A return that asks the hardware again before it reads the register.
ReturnReadingsReacquire ==
    /\ pc = "stable"
    /\ \E n \in 0..MaxSample :
        /\ data' = [data EXCEPT ![idx] = SampleData(n, TRUE)]
        /\ result' = BME680Readings(config, sensors[idx], data'[idx])
    /\ acqs' = acqs + 1
    /\ pc' = "returned"
    /\ UNCHANGED <<discoveryVarsButPc, messages, idx, attempt, waits,
                   okAt, okData, okLog, returned, published, pubLog, slept>>

\* After `break`: return the four pairs, read from the driver's register.
ReturnReadings ==
    /\ pc = "stable"
    /\ result' = BME680Readings(config, sensors[idx], data[idx])
    /\ pc' = "returned"
    /\ UNCHANGED <<discoveryVarsButPc, data, messages, idx, attempt, acqs, waits,
                   okAt, okData, okLog, returned, published, pubLog, slept>>

\* A probe read whose hardware error is caught and gives no readings.
ReadW1Swallows(answers) ==
    /\ pc = "read" /\ IsSensor("w1")
    /\ \E a \in answers :
        result' = IF a.fail THEN <<>>
                  ELSE W1Readings(config, sensors[idx], a.temperature)
    /\ acqs' = acqs + 1
    /\ pc' = "returned"
    /\ UNCHANGED <<discoveryVarsButPc, data, messages, idx, attempt, waits,
                   okAt, okData, okLog, returned, published, pubLog, slept>>

\* main reaches a 1-Wire probe: W1Sensor.topics_and_values, one
\* get_temperature() whose error nothing catches.
ReadW1(answers) ==
    /\ pc = "read" /\ IsSensor("w1")
    /\ \E a \in answers :
        IF a.fail
        THEN Raise("SensorNotReadyError") /\ result' = result
        ELSE /\ result' = W1Readings(config, sensors[idx], a.temperature)
             /\ pc' = "returned" /\ exc' = exc
    /\ acqs' = acqs + 1
    /\ UNCHANGED <<config, fqdn, bus_id, i2c_device, entry, sensors, busLog,
                   ctorLog, w1Log, data, messages, idx, attempt, waits,
                   okAt, okData, okLog, returned, published, pubLog, slept>>

Max(S) == CHOOSE m \in S : \A n \in S : n <= m

\* What the history keeps of a call that ended: the register its
\* successful attempt left, and how many acquisitions followed that attempt.
CallSummary ==
    IF okAt = {} THEN None
    ELSE Some([reg |-> Val(okData), later |-> acqs - Max(okAt)])

\* main appends the sensor's pairs and goes on to the next sensor.
Collect ==
    /\ pc = "returned"
    /\ messages' = Extend(messages, result)
    /\ returned' = Append(returned, result)
    /\ okLog' = Append(okLog, CallSummary)
    /\ idx' = idx + 1
    /\ result' = <<>>
    /\ ClearCall
    /\ pc' = "read"
    /\ UNCHANGED <<discoveryVarsButPc, data, published, pubLog, slept>>

\* `if messages:` holds and publish.multiple(messages, ...) is called; main
\* is inside the call until it returns or raises.
Publish ==
    /\ pc = "read" /\ idx > Len(sensors)
    /\ messages # <<>>
    /\ published' = Append(published, messages)
    /\ pc' = "publishing"
    /\ UNCHANGED <<discoveryVarsButPc, data, messages, idx, attempt, acqs, waits,
                   okAt, okData, result, okLog, returned, pubLog, slept>>

\* A publish call whose failure is caught and passed over.
PublishEndsCaught(outcomes) ==
    /\ pc = "publishing"
    /\ \E o \in outcomes : pubLog' = Append(pubLog, o)
    /\ pc' = "delay"
    /\ UNCHANGED <<discoveryVarsButPc, data, messages, idx, attempt, acqs, waits,
                   okAt, okData, result, okLog, returned, published, slept>>

\* publish.multiple() returns, or raises; nothing in main catches it.
PublishEnds(outcomes) ==
    /\ pc = "publishing"
    /\ \E o \in outcomes :
        /\ pubLog' = Append(pubLog, o)
        /\ IF o = "ok" THEN pc' = "delay" /\ exc' = exc ELSE Raise(o)
    /\ UNCHANGED <<config, fqdn, bus_id, i2c_device, entry, sensors, busLog,
                   ctorLog, w1Log, data, messages, idx, attempt, acqs, waits,
                   okAt, okData, result, okLog, returned, published, slept>>

\* An empty cycle that hands its empty batch to publish all the same.
NoMessagesPublishes ==
    /\ pc = "read" /\ idx > Len(sensors)
    /\ messages = <<>>
    /\ published' = Append(published, messages)
    /\ pc' = "delay"
    /\ UNCHANGED <<discoveryVarsButPc, data, messages, idx, attempt, acqs, waits,
                   okAt, okData, result, okLog, returned, pubLog, slept>>

\* `else: print("No messages to publish, bit weird.")`
NoMessages ==
    /\ pc = "read" /\ idx > Len(sensors)
    /\ messages = <<>>
    /\ pc' = "delay"
    /\ UNCHANGED <<discoveryVarsButPc, data, loopVars>>

\* A loop that sleeps and then ends instead of going round.
DelayExits ==
    /\ pc = "delay"
    /\ slept' = Append(slept, config.general_delay)
    /\ pc' = "exit"
    /\ UNCHANGED <<discoveryVarsButPc, data, messages, idx, attempt, acqs, waits,
                   okAt, okData, result, okLog, returned, published, pubLog>>

\* sleep(int(config['general']['delay'])), then the next cycle.
Delay ==
    /\ pc = "delay"
    /\ slept' = Append(slept, config.general_delay)
    /\ pc' = "loop"
    /\ UNCHANGED <<discoveryVarsButPc, data, messages, idx, attempt, acqs, waits,
                   okAt, okData, result, okLog, returned, published, pubLog>>

NextDiscovery ==
    \/ OpenBus(BusOutcomes)
    \/ ConstructConfigured(CtorOutcomes)
    \/ ConstructDefault(CtorOutcomes)
    \/ DiscoverW1(W1Answers)
    \/ CheckSensors

SpecDiscovery == InitDiscovery /\ [][NextDiscovery]_vars

-----------------------------------------------------------------------------
(* The whole program, from import to the polling loop, on a host with both *)
(* I2C buses present, general.hostname set, at most one w1sensors override *)
(* and at most one bme680sensors entry.  STARTUP over the full range of           *)
(* configurations and hardware answers is SpecDiscovery.                   *)

Init ==
    /\ InitDiscovery
    /\ config.general_hostname = Some("pi1")
    /\ config.w1sensors \in { [p \in {} |-> ""], [p \in {"28-bb"} |-> ""] }
    /\ Len(config.bme680sensors) <= 1
    /\ fqdn = <<"p","i","1">>

Next ==
    \/ OpenBus({"ok"})
    \/ ConstructConfigured({"ok", "OSError"})
    \/ ConstructDefault({"ok", "OSError"})
    \/ DiscoverW1(W1Answers)
    \/ CheckSensors
    \/ StartCycle
    \/ EnterReadings
    \/ Acquire(DriverAnswers)
    \/ Wait
    \/ GiveUp
    \/ ReturnReadings
    \/ ReadW1(W1ReadAnswers)
    \/ Collect
    \/ Publish
    \/ PublishEnds(PublishOutcomes)
    \/ NoMessages
    \/ Delay

Spec == Init /\ [][Next]_vars

-----------------------------------------------------------------------------
(* The whole program when no hardware read and no publish call fails or    *)
(* hangs.  main is one thread and every call in it returns, so a step that *)
(* is possible is taken in the end: weak fairness of the next-state        *)
(* relation.                                                               *)

\* The answers of a collaborator that are not failures.
Succeeding(answers) == { a \in answers : ~a.fail }

NextLive ==
    \/ OpenBus({"ok"})
    \/ ConstructConfigured({"ok", "OSError"})
    \/ ConstructDefault({"ok", "OSError"})
    \/ DiscoverW1(W1Answers)
    \/ CheckSensors
    \/ StartCycle
    \/ EnterReadings
    \/ Acquire(Succeeding(DriverAnswers))
    \/ Wait
    \/ GiveUp
    \/ ReturnReadings
    \/ ReadW1(Succeeding(W1ReadAnswers))
    \/ Collect
    \/ Publish
    \/ PublishEnds({"ok"})
    \/ NoMessages
    \/ Delay

SpecLive == Init /\ [][NextLive]_vars /\ WF_vars(NextLive)

-----------------------------------------------------------------------------
(* Topic naming on its own: two sensors with ids of any shape are asked    *)
(* for the topic of an attribute each, under a template that holds both    *)
(* placeholders.  `result` then holds the two (topic, attribute) pairs.    *)

Lit(text) == [kind |-> "lit", text |-> text]
Field(name) == [kind |-> "field", text |-> name]
TopicTemplates ==
    { << Field("id"), Lit("/"), Field("attribute") >>,
      << Lit("home/"), Field("id"), Lit("/"), Field("attribute") >>,
      << Field("attribute"), Lit("-"), Field("id") >>,
      << Field("id"), Field("attribute") >> }
TopicIds == { "a", "a/b", "pi1", "pi1_28-aa" }
TopicAttributes == { "temperature", "humidity", "c", "b/c" }

InitTopic ==
    /\ config \in [ general_hostname : {None}, general_delay : Delays,
                    mqtt_topic_format : TopicTemplates,
                    w1sensors : { [p \in {} |-> ""] }, bme680sensors : { <<>> } ]
    /\ fqdn = <<"p","i","1">>
    /\ pc = "ids"
    /\ exc = "" /\ bus_id = 0 /\ i2c_device = None /\ entry = 1
    /\ sensors = <<>> /\ busLog = <<>> /\ ctorLog = <<>> /\ w1Log = None
    /\ data = <<>> /\ messages = <<>> /\ idx = 0 /\ attempt = 0
    /\ acqs = 0 /\ waits = 0 /\ okAt = {} /\ okData = None
    /\ result = <<>> /\ okLog = <<>> /\ returned = <<>>
    /\ published = <<>> /\ pubLog = <<>> /\ slept = <<>>

\* Two sensor objects are given their mqtt_id.
AssignIds ==
    /\ pc = "ids"
    /\ \E id1, id2 \in TopicIds :
         sensors' = << BaseSensor(id1), BaseSensor(id2) >>
    /\ pc' = "topic"
    /\ UNCHANGED <<config, fqdn, exc, bus_id, i2c_device, entry, busLog, ctorLog,
                   w1Log, data, loopVars>>

\* sensor.topic_for_attribute(attribute) on each of the two.
NameTopics ==
    /\ pc = "topic"
    /\ \E a1, a2 \in TopicAttributes :
         result' = << <<topic_for_attribute(config, sensors[1], a1), a1>>,
                      <<topic_for_attribute(config, sensors[2], a2), a2>> >>
    /\ pc' = "named"
    /\ UNCHANGED <<discoveryVarsButPc, data, messages, idx, attempt, acqs, waits,
                   okAt, okData, okLog, returned, published, pubLog, slept>>

NextTopic == AssignIds \/ NameTopics

SpecTopic == InitTopic /\ [][NextTopic]_vars

-----------------------------------------------------------------------------
(* Properties.                                                             *)

PollingPcs ==
    {"loop", "read", "attempt", "wait", "stable", "returned", "publishing", "delay"}
Attributes == <<"temperature", "humidity", "pressure", "gas_resistance">>

\* The topics of a list of (topic, value) pairs.
TopicsOf(readings) == [k \in 1..Len(readings) |-> readings[k][1]]

\* An environmental sensor's readings() call has just ended.
BmeCallEnded == pc = "returned" /\ IsSensor("bme680")

\* C1: an environmental sensor's readings() returns the four readings
\* temperature, humidity, pressure, gas_resistance exactly when one of its
\* first 60 attempts reported both data present and heater stable; it
\* returns the empty sequence exactly when 60 attempts were made and none
\* did, so a success on the 60th attempt still gives the four readings.
C1_FourIffStableWithin60 ==
    BmeCallEnded =>
        /\ okAt \subseteq 1..60
        /\ okAt # {} <=>
             /\ Len(result) = 4
             /\ TopicsOf(result) =
                  [k \in 1..4 |-> topic_for_attribute(config, sensors[idx], Attributes[k])]
        /\ okAt = {} <=> result = <<>>
        /\ result = <<>> => acqs = 60

\* The call succeeded on its 60th attempt, after 59 that were not ready.
C1_Witness == BmeCallEnded /\ okAt = {60} /\ Len(result) = 4

\* The registers' four values, in the order of Attributes.
FourValues(reg) ==
    <<reg.temperature, reg.humidity, reg.pressure, reg.gas_resistance>>

RECURSIVE Offset(_, _)
\* Where the readings of call number i start in the cycle's batch.
Offset(rets, i) == IF i = 1 THEN 0 ELSE Offset(rets, i - 1) + Len(rets[i - 1])

\* The records of batch b that call number i of the cycle contributed.
Slice(b, rets, i) ==
    SubSeq(b, Offset(rets, i) + 1, Offset(rets, i) + Len(rets[i]))

\* C2: every record of an environmental sensor in a published batch carries
\* the values the register held after the one attempt of that call that
\* reported data present and stable; no acquisition was made on the sensor
\* after that attempt, and the four values are those of that one sample.
C2_PublishedFromStableAcquisition ==
    \A n \in 1..Len(published) :
      \A i \in 1..Len(returned) :
        (sensors[i].kind = "bme680" /\ returned[i] # <<>>) =>
            /\ okLog[i] # None
            /\ Val(okLog[i]).later = 0
            /\ Val(okLog[i]).reg.heat_stable
            /\ \E s \in 0..MaxSample : Val(okLog[i]).reg = SampleData(s, TRUE)
            /\ [k \in 1..4 |-> Slice(published[n], returned, i)[k].payload] =
                 [k \in 1..4 |-> Str(FourValues(Val(okLog[i]).reg)[k])]

\* A batch with an environmental sensor's records was published.
C2_Witness ==
    /\ published # <<>>
    /\ \E i \in 1..Len(returned) :
         sensors[i].kind = "bme680" /\ returned[i] # <<>> /\ okLog[i] # None

RECURSIVE Flatten(_)
\* The records main makes of a cycle's returned readings, in call order.
Flatten(rets) ==
    IF rets = <<>> THEN <<>>
    ELSE Flatten(SubSeq(rets, 1, Len(rets) - 1)) \o
         [ k \in 1..Len(rets[Len(rets)]) |->
             [ topic |-> rets[Len(rets)][k][1],
               payload |-> Str(rets[Len(rets)][k][2]) ] ]

\* Both discovery procedures have run.
DiscoveryDone == w1Log # None

\* C3: when both discovery procedures together produced no sensor, the
\* process ends in STARTUP with "No sensors found.": it is never in a
\* polling position, and no readings() call, publish call or sleep happened.
C3_NoSensorsIsFatal ==
    /\ pc \in PollingPcs => sensors # <<>>
    /\ (DiscoveryDone /\ sensors = <<>> /\ pc # "check") =>
          /\ pc = "crashed" /\ exc = "No sensors found."
          /\ idx = 0 /\ acqs = 0 /\ returned = <<>>
          /\ published = <<>> /\ slept = <<>>

\* Discovery found nothing and the process has failed.
C3_Witness ==
    DiscoveryDone /\ sensors = <<>> /\ pc = "crashed" /\ exc = "No sensors found."

\* The cycle's batch has been dealt with: publish returned or raised, or
\* the empty cycle was reported.
BatchHandled ==
    \/ pc = "delay"
    \/ pc = "loop" /\ slept # <<>>
    \/ pc = "crashed" /\ exc = "ConnectionRefusedError"

\* C4: in a poll cycle publish is called once if the cycle's flattened
\* batch is non-empty and not at all if it is empty; it is never called
\* while sensors are still being read, never with an empty batch, and the
\* one call carries the whole batch.
C4_PublishOncePerNonEmptyCycle ==
    /\ Len(published) <= 1
    /\ \A n \in 1..Len(published) :
         published[n] # <<>> /\ Len(published[n]) = Len(Flatten(returned))
    /\ pc \in {"read", "attempt", "wait", "stable", "returned"} /\ idx <= Len(sensors)
         => published = <<>>
    /\ BatchHandled =>
         Len(published) = (IF Flatten(returned) # <<>> THEN 1 ELSE 0)

\* An empty cycle went by without a publish call.
C4_Witness ==
    pc = "delay" /\ Len(returned) = Len(sensors) /\ Flatten(returned) = <<>>
      /\ published = <<>>

\* C5: the published batch is the concatenation, in sensor order
\* (environmental sensors before 1-Wire probes) and in each sensor's own
\* order, of what the sensors returned in this cycle; a sensor that
\* returned nothing contributes no record and nothing older is carried over.
C5_BatchIsConcatenation ==
    /\ \A i, j \in 1..Len(sensors) :
         (i < j /\ sensors[i].kind = "w1") => sensors[j].kind = "w1"
    /\ \A n \in 1..Len(published) :
         /\ Len(returned) = Len(sensors)
         /\ published[n] = Flatten(returned)
         /\ \A i \in 1..Len(returned) :
              /\ Len(returned[i]) = (IF sensors[i].kind = "w1" THEN 1
                                     ELSE IF okLog[i] = None THEN 0 ELSE 4)
              /\ \A k \in 1..Len(returned[i]) :
                   returned[i][k][1] =
                     topic_for_attribute(config, sensors[i], Attributes[k])

\* A batch was published in a cycle in which the environmental sensor
\* returned nothing and a probe returned its reading.
C5_Witness ==
    /\ published # <<>>
    /\ \E i, j \in 1..Len(returned) :
         returned[i] = <<>> /\ returned[j] # <<>>

-----------------------------------------------------------------------------
(* Properties of STARTUP.                                                  *)

\* The 1-Wire enumeration answered, the capability being present.
W1Enumerated == w1Log # None /\ Val(w1Log).available
W1Probes == Val(w1Log).probes
\* The sensor discovery made of the k-th enumerated probe.
W1SensorOf(k) == sensors[Len(sensors) - Len(W1Probes) + k]
BmeSensors == SelectSeq(sensors, LAMBDA x : x.kind = "bme680")

\* The strings the resolved host name may be: the general.hostname option
\* when present, otherwise the characters of the system host name that
\* come before its first dot.
ResolvedHostnames ==
    IF config.general_hostname # None
    THEN { Val(config.general_hostname) }
    ELSE { Join(SubSeq(fqdn, 1, k)) : k \in
             { n \in 0..Len(fqdn) :
                 /\ \A j \in 1..n : fqdn[j] # "."
                 /\ (n = Len(fqdn) \/ fqdn[n + 1] = ".") } }

\* C6: a probe with an entry in w1sensors gets exactly the configured value
\* as its mqtt_id, whether it is the only visible probe or one of several.
C6_OverrideWins ==
    W1Enumerated =>
      \A k \in 1..Len(W1Probes) :
        /\ W1SensorOf(k).kind = "w1" /\ W1SensorOf(k).probe = W1Probes[k]
        /\ W1Probes[k] \in DOMAIN config.w1sensors =>
             W1SensorOf(k).mqtt_id = config.w1sensors[W1Probes[k]]

\* The only visible probe has an override, and is named by it.
C6_Witness ==
    /\ W1Enumerated /\ W1Probes = <<"28-aa">>
    /\ "28-aa" \in DOMAIN config.w1sensors
    /\ W1SensorOf(1).mqtt_id = "attic"

\* C7: without an override a lone probe is named by the resolved host name
\* and each of several probes by <hostname>_<probe id>; probes 28-aa and
\* 28-bb on host pi1 become pi1_28-aa and pi1_28-bb.  The resolved host name
\* is general.hostname when present, else the first label of the system name.
C7_DefaultNames ==
    W1Enumerated =>
      /\ \A k \in 1..Len(W1Probes) :
           W1Probes[k] \notin DOMAIN config.w1sensors =>
             IF Len(W1Probes) = 1
             THEN W1SensorOf(k).mqtt_id \in ResolvedHostnames
             ELSE W1SensorOf(k).mqtt_id \in
                    { h \o "_" \o W1Probes[k] : h \in ResolvedHostnames }
      /\ ( /\ W1Probes = <<"28-aa", "28-bb">>
           /\ DOMAIN config.w1sensors = {}
           /\ ResolvedHostnames = {"pi1"} )
           => /\ W1SensorOf(1).mqtt_id = "pi1_28-aa"
              /\ W1SensorOf(2).mqtt_id = "pi1_28-bb"
      /\ (config.general_hostname = None /\ fqdn = <<"r","p","i",".","l","a","n">>)
           => ResolvedHostnames = {"rpi"}

\* Two probes without overrides on host pi1 got their generated names.
C7_Witness ==
    /\ W1Enumerated /\ W1Probes = <<"28-aa", "28-bb">>
    /\ DOMAIN config.w1sensors = {}
    /\ W1SensorOf(1).mqtt_id = "pi1_28-aa" /\ W1SensorOf(2).mqtt_id = "pi1_28-bb"

\* BME680Sensor.create_sensors has returned.
BmeDiscoveryReturned == pc \in {"w1", "check", "loop"} \/ DiscoveryDone

\* C8: environmental-sensor discovery makes one sensor per bme680sensors
\* entry, bound to the entry's address and id; the default sensor (default
\* address, resolved host name) is made only when there is no entry, and
\* then at most one sensor results.
C8_OneSensorPerEntry ==
    /\ \A k \in 1..Len(ctorLog) :
         ctorLog[k].entry = 0 => config.bme680sensors = <<>>
    /\ BmeDiscoveryReturned =>
         IF config.bme680sensors # <<>>
         THEN /\ Len(BmeSensors) = Len(config.bme680sensors)
              /\ \A i \in 1..Len(BmeSensors) :
                   /\ BmeSensors[i].mqtt_id = config.bme680sensors[i][2]
                   /\ BmeSensors[i].addr = HexInt(config.bme680sensors[i][1])
         ELSE /\ Len(BmeSensors) <= 1
              /\ \A i \in 1..Len(BmeSensors) :
                   /\ BmeSensors[i].mqtt_id \in ResolvedHostnames
                   /\ BmeSensors[i].addr = I2C_ADDR_PRIMARY

\* C9: OSError from the driver's constructor is passed over only for the
\* default sensor, where it leaves no environmental sensor and discovery
\* goes on to the probes; for a configured entry it ends the process in
\* STARTUP before the probes are looked at.
C9_AbsentDeviceToleratedOnlyForDefault ==
    \A k \in 1..Len(ctorLog) :
      ctorLog[k].outcome = "OSError" =>
        IF ctorLog[k].entry = 0
        THEN /\ BmeSensors = <<>>
             /\ exc # "OSError"
             /\ pc \in {"w1", "check"} \cup PollingPcs \/
                  (pc = "crashed" /\ DiscoveryDone)
        ELSE /\ pc = "crashed" /\ exc = "OSError"
             /\ ~DiscoveryDone

\* No device answered at a configured address and the process has ended.
C9_Witness ==
    /\ ctorLog # <<>>
    /\ ctorLog[Len(ctorLog)].entry >= 1 /\ ctorLog[Len(ctorLog)].outcome = "OSError"
    /\ pc = "crashed"

\* C10: after the scan of bus 0 and bus 1 the handle given to the sensors is
\* that of the last bus that opened: bus 1's if bus 1 opened, else bus 0's
\* if bus 0 opened, else none; a bus that is not found ends nothing.
C10_LastOpenedBusIsKept ==
    /\ exc # "FileNotFoundError"
    /\ Len(busLog) = 2 /\ busLog[2] \in {"ok", "FileNotFoundError"} =>
         LET kept == IF busLog[2] = "ok" THEN Some(1)
                     ELSE IF busLog[1] = "ok" THEN Some(0) ELSE None
         IN /\ i2c_device = kept
            /\ \A i \in 1..Len(BmeSensors) : BmeSensors[i].handle = kept

\* Only bus 0 opened and a sensor was given its handle.
C10_Witness ==
    /\ busLog = <<"ok", "FileNotFoundError">>
    /\ BmeSensors # <<>> /\ BmeSensors[1].handle = Some(0)

\* Bus 0 opened and bus 1 was not found.
OnlyBus0Opened == busLog = <<"ok", "FileNotFoundError">>

\* C11 as stated: when bus 0 opens and bus 1 is not found, the handle of
\* bus 0 is discarded and the sensors are constructed without it.
C11_HandleDiscardedAfterFailure ==
    OnlyBus0Opened =>
        /\ i2c_device = None
        /\ \A i \in 1..Len(BmeSensors) : BmeSensors[i].handle = None

\* C11 (amended): when bus 0 opens and bus 1 is not found, the scan still
\* holds the handle of bus 0 and every environmental sensor is constructed
\* with it.
C11_HandleOfBus0Survives ==
    OnlyBus0Opened =>
        /\ i2c_device = Some(0)
        /\ \A i \in 1..Len(BmeSensors) : BmeSensors[i].handle = Some(0)
        /\ \A k \in 1..Len(ctorLog) :
             ctorLog[k].outcome = "ok" =>
               \E i \in 1..Len(BmeSensors) :
                 BmeSensors[i].addr = ctorLog[k].addr /\ BmeSensors[i].handle = Some(0)

\* Bus 1 was not found and two configured sensors were built on bus 0.
C11_Witness ==
    /\ OnlyBus0Opened
    /\ Len(BmeSensors) = 2
    /\ BmeSensors[1].handle = Some(0) /\ BmeSensors[2].handle = Some(0)

\* The hardware resource a sensor object holds: its probe, or its bus handle.
SharesHandle(a, b) ==
    IF a.kind = "w1" /\ b.kind = "w1" THEN a.probe = b.probe
    ELSE IF a.kind = "bme680" /\ b.kind = "bme680"
         THEN a.handle # None /\ a.handle = b.handle
         ELSE FALSE

\* C12 as stated: no two sensors of the set share a device handle, the
\* opened I2C bus handle of the environmental sensors included.
C12_NoHandleShared ==
    \A i, j \in 1..Len(sensors) :
        i # j => ~SharesHandle(sensors[i], sensors[j])

\* C12 (amended): no two probes of the set are the same probe and every
\* sensor has a driver register of its own, but the environmental sensors
\* all hold the one bus handle the scan kept (none if no bus opened), so
\* two configured environmental sensors share it.
C12_OnlyBusHandleShared ==
    /\ Len(data) = Len(sensors)
    /\ \A i, j \in 1..Len(sensors) :
         (i # j /\ sensors[i].kind = "w1" /\ sensors[j].kind = "w1")
            => sensors[i].probe # sensors[j].probe
    /\ \A i \in 1..Len(sensors) :
         sensors[i].kind = "bme680" => sensors[i].handle = i2c_device
    /\ \A i \in 1..Len(sensors) :
         sensors[i].kind = "w1" => sensors[i].handle = None

\* Two configured environmental sensors hold the same opened bus handle.
C12_Witness ==
    /\ Len(BmeSensors) = 2
    /\ BmeSensors[1].handle # None
    /\ BmeSensors[1].handle = BmeSensors[2].handle
    /\ DiscoveryDone

\* C13 as stated: in POLLING every sensor of the set has a non-empty
\* mqtt_id, whatever the configuration holds.
C13_IdNeverEmpty ==
    pc \in PollingPcs =>
        \A i \in 1..Len(sensors) : sensors[i].mqtt_id # ""

\* The configuration value an empty mqtt_id of sensor s was taken from.
EmptyIdIsConfigured(s) ==
    \/ /\ s.kind = "w1"
       /\ s.probe \in DOMAIN config.w1sensors
       /\ config.w1sensors[s.probe] = ""
    \/ /\ s.kind = "bme680"
       /\ \E e \in 1..Len(config.bme680sensors) : config.bme680sensors[e][2] = ""
    \/ /\ "" \in ResolvedHostnames
       /\ \/ s.kind = "bme680" /\ config.bme680sensors = <<>>
          \/ s.kind = "w1" /\ s.probe \notin DOMAIN config.w1sensors

\* C13 (amended): in POLLING no step changes a sensor's mqtt_id or the
\* sensor set, and an mqtt_id is empty only when the configuration value or
\* host name it was taken from at discovery is empty (an empty w1sensors
\* override gives an empty mqtt_id).
C13_IdStableEmptyOnlyIfConfigured ==
    [][ /\ pc \in PollingPcs =>
             /\ Len(sensors') = Len(sensors)
             /\ \A i \in 1..Len(sensors) : sensors'[i].mqtt_id = sensors[i].mqtt_id
        /\ pc' \in PollingPcs =>
             \A i \in 1..Len(sensors') :
                sensors'[i].mqtt_id = "" => EmptyIdIsConfigured(sensors[i])' ]_vars

\* A batch was published for a probe whose override, and so mqtt_id, is empty.
C13_Witness ==
    /\ pc = "delay" /\ published # <<>>
    /\ \E i \in 1..Len(sensors) :
         /\ sensors[i].kind = "w1" /\ sensors[i].mqtt_id = ""
         /\ sensors[i].probe \in DOMAIN config.w1sensors

\* The two namings gave the same topic.
SameTopic == result[1][1] = result[2][1]
SameId == sensors[1].mqtt_id = sensors[2].mqtt_id
SameAttribute == result[1][2] = result[2][2]

\* C14 as stated: under a template with both placeholders two distinct
\* (id, attribute) pairs never get the same topic.
C14_TopicInjective ==
    pc = "named" => (SameTopic => SameId /\ SameAttribute)

\* C14 (amended): under a template with both placeholders, two pairs that
\* differ in the id alone or in the attribute alone never get the same
\* topic; pairs that differ in both may.
C14_TopicInjectiveInEachArgument ==
    pc = "named" =>
        ((SameTopic /\ (SameId \/ SameAttribute)) => (SameId /\ SameAttribute))

\* Two sensors with different ids were named for the same attribute and got
\* different topics.
C14_Witness ==
    pc = "named" /\ ~SameId /\ SameAttribute /\ ~SameTopic

\* A publish call of this cycle raised.
PublishFailed == \E n \in 1..Len(pubLog) : pubLog[n] # "ok"

\* What holds of the publish calls in every state.
PublishFailureIsFatal ==
    /\ Len(pubLog) <= Len(published)
    /\ PublishFailed =>
         /\ pc = "crashed" /\ exc = pubLog[Len(pubLog)]
         /\ slept = <<>>
         /\ Len(published) = Len(pubLog)
         /\ idx = Len(sensors) + 1 /\ Len(returned) = Len(sensors) /\ acqs = 0
    /\ pc = "publishing" => Len(pubLog) < Len(published) /\ slept = <<>>
    /\ slept # <<>> => Len(pubLog) = Len(published) /\ ~PublishFailed

\* C15: a publish call that raises ends the process: the failure is the
\* process's exception, no step follows it, so no sleep, no readings() call
\* and no publish call comes after it; and while a publish call has neither
\* returned nor raised, the cycle's sleep has not happened.
C15_PublishFailureTerminates ==
    /\ []PublishFailureIsFatal
    /\ [][~(pc = "crashed" /\ exc = "ConnectionRefusedError")]_vars

\* A batch was handed to publish, the call raised and the process ended.
C15_Witness ==
    /\ pc = "crashed" /\ exc = "ConnectionRefusedError"
    /\ pubLog = <<"ConnectionRefusedError">> /\ Len(published) = 1

\* What holds of a probe's readings() call in every state.
W1ReadIsSingleAndUncaught ==
    /\ (pc = "returned" /\ IsSensor("w1")) =>
         /\ Len(result) = 1
         /\ result[1][1] = "home/" \o sensors[idx].mqtt_id \o "/temperature"
         /\ acqs = 1 /\ waits = 0
    /\ (pc = "crashed" /\ exc = "SensorNotReadyError") =>
         /\ IsSensor("w1") /\ acqs = 1 /\ waits = 0
         /\ Len(returned) = idx - 1
         /\ published = <<>> /\ pubLog = <<>> /\ slept = <<>>

\* C16: a probe's readings() call that ends gives exactly one pair, its
\* topic the temperature topic of the probe, after one hardware read and no
\* wait; a hardware error in that read ends the process there: the cycle
\* has published nothing, whatever was collected from earlier sensors, has
\* not slept, and no step follows.
C16_W1SingleReadErrorIsFatal ==
    /\ []W1ReadIsSingleAndUncaught
    /\ [][~(pc = "crashed" /\ exc = "SensorNotReadyError")]_vars

\* A probe's read failed in a cycle that had already collected the
\* environmental sensor's readings; nothing was published.
C16_Witness ==
    /\ pc = "crashed" /\ exc = "SensorNotReadyError"
    /\ messages # <<>> /\ Len(returned) >= 1 /\ published = <<>>

\* main is inside an environmental sensor's readings() call.
InBmeCall == pc \in {"attempt", "wait", "stable", "returned"} /\ IsSensor("bme680")

\* What holds of the acquisitions of such a call in every state.
AcquisitionsBounded ==
    InBmeCall =>
        /\ acqs <= 60 /\ acqs = attempt
        /\ okAt \subseteq {acqs}
        /\ pc = "stable" => okAt = {acqs}
        /\ pc = "wait" => okAt = {}
        /\ BmeCallEnded => (okAt # {} \/ acqs = 60)

\* C17: one readings() call of an environmental sensor makes at most 60
\* acquisitions; a further acquisition is made only while fewer than 60
\* were made and none of them reported data present and stable, so the
\* first attempt that does is the last; and the call ends only after such
\* an attempt or after 60 attempts.
C17_AtMost60StopAtFirstStable ==
    /\ []AcquisitionsBounded
    /\ [][ (IsSensor("bme680") /\ acqs' = acqs + 1) =>
               (okAt = {} /\ acqs < 60) ]_vars

\* A call ended on its second attempt, the first one having failed the test.
C17_Witness == BmeCallEnded /\ okAt = {2} /\ acqs = 2

\* C18: the 0.5 wait happens only between attempts of a readings() call:
\* a call that ended after k attempts made k-1 waits, whether attempt k
\* succeeded or was the 60th failure, and a wait is never the last thing
\* the call does before it gives up.
C18_WaitOnlyBetweenAttempts ==
    /\ BmeCallEnded => waits = acqs - 1
    /\ (InBmeCall /\ pc = "attempt") => waits <= 60 - 1

\* A cycle was completed and slept after: main is back at the top of the loop.
CycleSlept ==
    /\ pc = "loop" /\ slept = <<config.general_delay>>
    /\ Len(returned) = Len(sensors)

\* A step taken inside the loop stays inside it and leaves discovery's
\* results alone.
StaysInLoop ==
    pc \in PollingPcs =>
        /\ pc' \in PollingPcs
        /\ UNCHANGED <<sensors, i2c_device, busLog, ctorLog, w1Log>>

\* C19: once the loop is entered, and while no read and no publish call
\* fails or hangs, every cycle reaches its sleep and every sleep is followed
\* by the top of the loop with exactly one sleep of the configured delay
\* made, after a published batch and after an empty cycle alike; the loop
\* is never left, and discovery's results are never touched again.
C19_LoopNeverEnds ==
    /\ (pc = "loop") ~> (pc = "delay" /\ slept = <<>> /\ Len(returned) = Len(sensors))
    /\ (pc = "delay" /\ published # <<>>) ~> (CycleSlept /\ published # <<>>)
    /\ (pc = "delay" /\ published = <<>>) ~> (CycleSlept /\ published = <<>>)
    /\ CycleSlept ~> (pc = "read" /\ slept = <<>>)
    /\ [](Len(slept) <= 1)
    /\ [][StaysInLoop]_vars

\* An empty cycle went by, the loop slept once and is at the top again.
C19_Witness == CycleSlept /\ published = <<>> /\ Flatten(returned) = <<>>

\* No id is configured: no bme680sensors entry and no w1sensors override.
DefaultIds == config.bme680sensors = <<>> /\ DOMAIN config.w1sensors = {}

\* No two records of batch b carry the same topic.
TopicsDistinct(b) ==
    \A i, j \in 1..Len(b) : i # j => b[i].topic # b[j].topic

\* C20: with default ids, no two records of a published batch carry the
\* same topic, whatever sensor set discovery produced, the set of one
\* default environmental sensor and a single probe included.
C20_BatchTopicsDistinct ==
    DefaultIds => \A n \in 1..Len(published) : TopicsDistinct(published[n])
====
